---- MODULE Spec2Model ----
(***************************************************************************)
(* Model of the AFG2125 function-generator driver (src/gwinstek.py).       *)
(*                                                                         *)
(* The driver holds no configuration state: every method renders command   *)
(* text and hands it to the transport.  The state of the model is the      *)
(* call being served, the commands that call has written to the            *)
(* transport, in order, and how the call ended.  The session objects, the  *)
(* transport handles they hold, the position of the example program and    *)
(* the threads of a multi-threaded caller are the rest of the state.       *)
(*                                                                         *)
(* Command text is modelled as TLA+ strings built with \o, exactly as the  *)
(* f-strings of the source build it.  Python floats are IEEE binary64:     *)
(* the arithmetic of set_arb_data is modelled bit for bit (53-bit          *)
(* significand, round to nearest, ties to even, overflow to infinity) on   *)
(* bit sequences, so that the rounding of 511.0 / max_val and of x * scale *)
(* is the code's.                                                          *)
(***************************************************************************)
EXTENDS Integers, Sequences, FiniteSets, TLC

VARIABLES
    call,       \* the method being served, with its arguments; op "none"
                \* while the caller holds control
    written,    \* commands that call passed to Resource.write, in order
    codes,      \* set_arb_data's list of DAC codes (its local list of
                \* round(x * scale)), <<>> when the call computed none
    result,     \* how the call ended: returned value or raised exception
    prev,       \* the preceding call of a two-call session (SpecScale,
                \* SpecScalar): its arguments, commands and outcome
    queried,    \* commands that call passed to Resource.query, in order
    pc,         \* the statement of example.py's main program to run next;
                \* "none" when the caller is not that program
    resource,   \* self._resource of every session object: the address of
                \* the handle it holds
    handles,    \* every transport handle opened so far, by address:
                \* "open" or "closed"
    received,   \* the commands each handle was given by the threads of
                \* SpecPair and SpecShared, in order of arrival
    threads     \* the threads of SpecPair and SpecShared: the session each
                \* works on, its call and how far it got

vars == <<call, written, codes, result, prev, queried, pc, resource, handles,
          received, threads>>

\* what a call on a session leaves alone when it runs to its end
session == <<pc, resource, handles, received, threads>>

(***************************************************************************)
(* Bounds of the model.                                                    *)
(***************************************************************************)
\* longest enumerated sample list (the limit lengths 4096/4097 are added
\* as constant lists, see LongData)
MaxLen == 3
\* samples of the enumerated lists are h units, |h| <= MaxSample
MaxSample == 2
\* samples of the one- and two-element lists of SpecEnc
EncMaxSample == 46
\* the ordinary unit of a sample is 2^-SampleFracBits
SampleFracBits == 1
\* largest rescaling factor of SpecScale
MaxK == 23
\* bits per digit of the long division and multiplication of the float
\* arithmetic (any width gives the same floats)
ChunkWidth == 11
\* calls each thread of SpecPair and SpecShared makes at most
MaxCalls == 2

(***************************************************************************)
(* Program constants.                                                      *)
(***************************************************************************)
\* assert len(data) >= 1 and len(data) <= 4096
MinSamples == 1
MaxSamples == 4096
\* assert slot in list(range(10, 20))
SlotFirst == 10
SlotStop == 20
\* scale = 511.0 / max_val
FullScale == 511
\* a Python float is an IEEE binary64: a significand of 53 bits, every
\* finite value below 2^1024, the smallest positive value 2^-1074
MantBits == 53
MaxExp == 1024
SubnormalBits == 1074

(***************************************************************************)
(* Python values.                                                          *)
(***************************************************************************)
NoneVal == [kind |-> "None"]

StrVal(s) == [kind |-> "str", s |-> s]

IntVal(n) == [kind |-> "int", n |-> n]

\* a float with one decimal digit: the value tenths / 10
FloatVal(tenths) == [kind |-> "float", tenths |-> tenths]

Raised(exc) == [kind |-> "raise", exc |-> exc]

ListVal(items) == [kind |-> "list", items |-> items]

Abs(x) == IF x < 0 THEN -x ELSE x

Digit == <<"0", "1", "2", "3", "4", "5", "6", "7", "8", "9">>

RECURSIVE NatStr(_)
NatStr(n) == IF n < 10 THEN Digit[n + 1]
             ELSE NatStr(n \div 10) \o Digit[(n % 10) + 1]

\* str(n) of a Python int
IntStr(n) == IF n < 0 THEN "-" \o NatStr(-n) ELSE NatStr(n)

\* repr of a Python float that has one decimal digit (1000.0, -0.5)
FloatStr(tenths) ==
    (IF tenths < 0 THEN "-" ELSE "")
        \o NatStr(Abs(tenths) \div 10) \o "." \o Digit[(Abs(tenths) % 10) + 1]

\* f"{v}": the text an f-string substitutes for a value
Format(v) ==
    CASE v.kind = "str" -> v.s
      [] v.kind = "int" -> IntStr(v.n)
      [] v.kind = "float" -> FloatStr(v.tenths)
      [] v.kind = "None" -> "None"

\* sep.join(items), split in halves to keep the evaluation shallow
RECURSIVE JoinRange(_, _, _, _)
JoinRange(items, sep, lo, hi) ==
    IF lo > hi THEN ""
    ELSE IF lo = hi THEN items[lo]
    ELSE LET mid == (lo + hi) \div 2
         IN JoinRange(items, sep, lo, mid) \o sep \o JoinRange(items, sep, mid + 1, hi)

Join(items, sep) == JoinRange(items, sep, 1, Len(items))

(***************************************************************************)
(* IEEE binary64 arithmetic.  A positive float is [sig, exp]: sig is its   *)
(* significand, MantBits bits, most significant first, the first one 1;    *)
(* its value is sig * 2^exp.                                               *)
(***************************************************************************)
\* float('inf')
Inf == [sig |-> <<>>, exp |-> MaxExp]

\* a result of MaxExp or more bits before the point overflows to infinity
Overflow(f) == IF f.exp + MantBits > MaxExp THEN Inf ELSE f

RECURSIVE NatBits(_)
NatBits(n) == IF n = 0 THEN <<>> ELSE Append(NatBits(n \div 2), n % 2)

RECURSIVE BitsNat(_)
BitsNat(b) == IF b = <<>> THEN 0
              ELSE 2 * BitsNat(SubSeq(b, 1, Len(b) - 1)) + b[Len(b)]

AnyOne(b) == \E i \in 1..Len(b) : b[i] = 1

\* b without its leading zeros (b holds a 1)
StripZeros(b) ==
    LET first == CHOOSE i \in 1..Len(b) : b[i] = 1 /\ \A j \in 1..(i - 1) : b[j] = 0
    IN  SubSeq(b, first, Len(b))

\* the long division and multiplication below work on digits of
\* ChunkWidth bits, most significant digit first
Radix == 2 ^ ChunkWidth

\* the bits of a sequence of digits
Flatten(chunks) ==
    [i \in 1..(ChunkWidth * Len(chunks)) |->
        (chunks[((i - 1) \div ChunkWidth) + 1]
            \div (2 ^ (ChunkWidth - 1 - ((i - 1) % ChunkWidth)))) % 2]

\* the digits of a bit sequence, zeros added in front to fill the first digit
Chunks(b) ==
    LET n == (Len(b) + ChunkWidth - 1) \div ChunkWidth
        pad == [i \in 1..(n * ChunkWidth - Len(b)) |-> 0] \o b
    IN  [c \in 1..n |->
            BitsNat(SubSeq(pad, (c - 1) * ChunkWidth + 1, c * ChunkWidth))]

\* b + 1 on Len(b) bits (all ones wrap to all zeros)
Incr(b) ==
    IF \A i \in 1..Len(b) : b[i] = 1 THEN [i \in 1..Len(b) |-> 0]
    ELSE LET last == CHOOSE i \in 1..Len(b) :
                        b[i] = 0 /\ \A j \in (i + 1)..Len(b) : b[j] = 1
         IN [i \in 1..Len(b) |-> IF i < last THEN b[i] ELSE IF i = last THEN 1 ELSE 0]

\* The float nearest to b * 2^e (+ a nonzero tail below the last bit when
\* sticky), ties to the even significand.  b starts with 1, Len(b) >= MantBits.
RoundNearestEven(b, e, sticky) ==
    LET keep == SubSeq(b, 1, MantBits)
        drop == SubSeq(b, MantBits + 1, Len(b))
        e2 == e + Len(drop)
        guard == IF drop = <<>> THEN 0 ELSE drop[1]
        rest == sticky \/ (drop # <<>> /\ AnyOne(Tail(drop)))
        up == guard = 1 /\ (rest \/ keep[MantBits] = 1)
        inc == Incr(keep)
    IN  IF ~up THEN [sig |-> keep, exp |-> e2]
        ELSE IF inc[1] = 0
             THEN [sig |-> <<1>> \o SubSeq(inc, 1, MantBits - 1), exp |-> e2 + 1]
             ELSE [sig |-> inc, exp |-> e2]

\* count more quotient digits of r / d by long division
RECURSIVE DivChunks(_, _, _, _)
DivChunks(r, d, count, acc) ==
    IF count = 0 THEN [chunks |-> acc, rem |-> r]
    ELSE DivChunks((Radix * r) % d, d, count - 1, Append(acc, (Radix * r) \div d))

\* float(n) / float(d) for integers n > 0, d > 0
RECURSIVE FloatDiv(_, _)
FloatDiv(n, d) ==
    IF n < d
    THEN LET f == FloatDiv(2 * n, d) IN [sig |-> f.sig, exp |-> f.exp - 1]
    ELSE LET ip == NatBits(n \div d)
             need == MantBits + 1 - Len(ip)
             count == (need + ChunkWidth - 1) \div ChunkWidth
             fr == DivChunks(n % d, d, count, <<>>)
         IN  RoundNearestEven(ip \o Flatten(fr.chunks), -(count * ChunkWidth),
                              fr.rem # 0)

\* the digits of chunks * a, for an integer a > 0, after the carry's
RECURSIVE MulChunks(_, _, _, _)
MulChunks(chunks, a, carry, acc) ==
    IF chunks = <<>> THEN [carry |-> carry, chunks |-> acc]
    ELSE LET t == chunks[Len(chunks)] * a + carry
         IN MulChunks(SubSeq(chunks, 1, Len(chunks) - 1), a, t \div Radix,
                      <<t % Radix>> \o acc)

\* the bits of b * a, for an integer a > 0
MulBits(b, a) ==
    LET p == MulChunks(Chunks(b), a, 0, <<>>)
    IN  StripZeros(NatBits(p.carry) \o Flatten(p.chunks))

\* f * (a * 2^-shift) for an integer a > 0: the exact product, rounded once
FloatMul(f, a, shift) ==
    RoundNearestEven(MulBits(f.sig, a), f.exp - shift, FALSE)

\* round(f) of a positive float below 2^MantBits: nearest integer, ties to even
PyRound(f) ==
    LET nint == MantBits + f.exp
    IN  IF nint < 0 THEN 0
        ELSE LET ipart == BitsNat(SubSeq(f.sig, 1, nint))
                 half == f.sig[nint + 1]
                 rest == AnyOne(SubSeq(f.sig, nint + 2, MantBits))
             IN IF half = 1 /\ (rest \/ ipart % 2 = 1) THEN ipart + 1 ELSE ipart

(***************************************************************************)
(* set_arb_data: the encoder.  The list of floats is held as integers and  *)
(* a unit: the sample h stands for the float h * 2^unit.                   *)
(***************************************************************************)
\* max(abs(x) for x in data), in sample units
MaxAbs(data) ==
    LET mags == {Abs(data[i]) : i \in 1..Len(data)}
    IN CHOOSE m \in mags : \A y \in mags : y <= m

\* scale = 511.0 / max_val, for max_val units
Scale(max_val, unit) ==
    LET f == FloatDiv(FullScale, max_val)
    IN  Overflow([sig |-> f.sig, exp |-> f.exp - unit])

\* round(x * scale) for a finite scale
Code(x, scale, unit) ==
    IF x = 0 THEN 0
    ELSE (IF x < 0 THEN -1 ELSE 1) * PyRound(FloatMul(scale, Abs(x), -unit))

\* [round(x * scale) for x in data] for a finite scale
Codes(data, scale, unit) == [i \in 1..Len(data) |-> Code(data[i], scale, unit)]

\* What the list comprehension raises when scale is infinite: round fails
\* on the first sample, with x * inf infinite, or nan for a sample 0.
RoundError(data) == IF data[1] = 0 THEN "ValueError" ELSE "OverflowError"

\* ",".join([str(c) for c in codes])
DataStr(cs) == Join([i \in 1..Len(cs) |-> IntStr(cs[i])], ",")

(***************************************************************************)
(* The methods of AFG2125.  Each *_writes operator is the sequence of      *)
(* commands the method passes to write, in order.                          *)
(***************************************************************************)
\* self.write(command): the transport receives the command after those in w
write(w, command) == Append(w, command)

\* self.save(slot)
save(w, slot) == write(w, "*SAV " \o IntStr(slot))

\* self.recall(slot)
recall(w, slot) == write(w, "*RCL " \o IntStr(slot))

\* self._rm.open_resource(resource_name): the handles h, with the one at
\* that address open
open_resource(h, resource_name) ==
    [a \in DOMAIN h \cup {resource_name} |->
        IF a = resource_name THEN "open" ELSE h[a]]

\* AFG2125(resource_name) with _resource an attribute of the class, which
\* every session object then shares
AFG2125_class_attribute(res, self, resource_name) ==
    [s \in DOMAIN res \cup {self} |-> resource_name]

\* AFG2125(resource_name): the _resource attributes res of the session
\* objects, with that of the new object self set to the handle opened
AFG2125(res, self, resource_name) ==
    [s \in DOMAIN res \cup {self} |->
        IF s = self THEN resource_name ELSE res[s]]

\* self._resource.close() on the handle at address a
close(h, a) == [h EXCEPT ![a] = "closed"]

\* self.query(command): the transport is asked the command after those in q
query(q, command) == Append(q, command)

(***************************************************************************)
(* Scalar setters and getters.  A response is the list of the characters   *)
(* the transport returned.                                                 *)
(***************************************************************************)
ScalarSetters ==
    {"set_function", "set_frequency", "set_amplitude", "set_offset",
     "set_duty_cycle", "set_ramp_symmetry", "set_output", "set_output_load",
     "set_voltage_unit"}

\* the command header of each setter's f-string
setter_header(setter) ==
    CASE setter = "set_function" -> "SOUR:FUNC"
      [] setter = "set_frequency" -> "SOUR:FREQ"
      [] setter = "set_amplitude" -> "SOUR:AMPL"
      [] setter = "set_offset" -> "SOUR:DCO"
      [] setter = "set_duty_cycle" -> "SOUR:SQU:DCYC"
      [] setter = "set_ramp_symmetry" -> "SOUR:RAMP:SYMM"
      [] setter = "set_output" -> "OUTP"
      [] setter = "set_output_load" -> "OUTP:LOAD"
      [] setter = "set_voltage_unit" -> "SOUR:VOLT:UNIT"

setter_writes(setter, value) ==
    write(<<>>, setter_header(setter) \o " " \o Format(value))

ScalarGetters ==
    {"get_function", "get_frequency", "get_amplitude", "get_offset",
     "get_duty_cycle", "get_ramp_symmetry", "get_output", "get_output_load",
     "get_voltage_unit"}

\* the getters that pass the response to float()
NumericGetters ==
    {"get_frequency", "get_amplitude", "get_offset", "get_duty_cycle",
     "get_ramp_symmetry", "get_output"}

getter_command(getter) ==
    CASE getter = "get_function" -> "SOUR:FUNC?"
      [] getter = "get_frequency" -> "SOUR:FREQ?"
      [] getter = "get_amplitude" -> "SOUR:AMPL?"
      [] getter = "get_offset" -> "SOUR:DCO?"
      [] getter = "get_duty_cycle" -> "SOUR:SQU:DCYC?"
      [] getter = "get_ramp_symmetry" -> "SOUR:RAMP:SYMM?"
      [] getter = "get_output" -> "OUTP?"
      [] getter = "get_output_load" -> "OUTP:LOAD?"
      [] getter = "get_voltage_unit" -> "SOUR:VOLT:UNIT?"

Whitespace == {" ", "\t", "\n", "\r"}

\* str.strip(): the text without its leading and trailing whitespace
Strip(text) ==
    LET keep == {i \in 1..Len(text) : text[i] \notin Whitespace}
        first == CHOOSE i \in keep : \A j \in keep : i <= j
        last == CHOOSE i \in keep : \A j \in keep : i >= j
    IN  IF keep = {} THEN <<>> ELSE SubSeq(text, first, last)

\* the str of a list of characters
RECURSIVE Text(_)
Text(chars) == IF chars = <<>> THEN "" ELSE Head(chars) \o Text(Tail(chars))

UpperLetters ==
    <<"A", "B", "C", "D", "E", "F", "G", "H", "I", "J", "K", "L", "M",
      "N", "O", "P", "Q", "R", "S", "T", "U", "V", "W", "X", "Y", "Z">>

LowerLetters ==
    <<"a", "b", "c", "d", "e", "f", "g", "h", "i", "j", "k", "l", "m",
      "n", "o", "p", "q", "r", "s", "t", "u", "v", "w", "x", "y", "z">>

\* str.lower() of one character
Lower(c) ==
    IF \E i \in 1..Len(UpperLetters) : UpperLetters[i] = c
    THEN LowerLetters[CHOOSE i \in 1..Len(UpperLetters) : UpperLetters[i] = c]
    ELSE c

DigitChars == {Digit[i] : i \in 1..Len(Digit)}

DigitValue(c) == (CHOOSE i \in 1..Len(Digit) : Digit[i] = c) - 1

AllDigits(ds) == \A i \in 1..Len(ds) : ds[i] \in DigitChars

\* the number a list of decimal digits denotes
RECURSIVE DigitsNat(_)
DigitsNat(ds) ==
    IF ds = <<>> THEN 0
    ELSE 10 * DigitsNat(SubSeq(ds, 1, Len(ds) - 1)) + DigitValue(ds[Len(ds)])

\* the first position of text holding a character of S, 0 when none does
IndexOf(text, S) ==
    LET at == {i \in 1..Len(text) : text[i] \in S}
    IN  IF at = {} THEN 0 ELSE CHOOSE i \in at : \A j \in at : i <= j

\* float("nan") and float("inf"), float("-inf")
NanVal == [kind |-> "float", special |-> "nan"]

InfVal(negative) ==
    [kind |-> "float", special |-> IF negative THEN "-inf" ELSE "inf"]

\* the float nearest m * 10^x
RECURSIVE Decimal(_, _)
Decimal(m, x) ==
    IF x >= -1 THEN FloatVal(m * (10 ^ (x + 1)))
    ELSE IF m % 10 = 0 THEN Decimal(m \div 10, x + 1)
    ELSE [kind |-> "float", mant |-> m, exp10 |-> x]

\* float(text): an optional sign, then nan, inf or infinity in any case,
\* or digits with at most one point and an optional exponent; anything
\* else raises ValueError
PyFloat(text) ==
    LET s == Strip(text)
        signed == s # <<>> /\ s[1] \in {"+", "-"}
        negative == signed /\ s[1] = "-"
        body == IF signed THEN Tail(s) ELSE s
        low == [i \in 1..Len(body) |-> Lower(body[i])]
        e == IndexOf(low, {"e"})
        mant == IF e = 0 THEN body ELSE SubSeq(body, 1, e - 1)
        expo == IF e = 0 THEN <<>> ELSE SubSeq(body, e + 1, Len(body))
        esigned == expo # <<>> /\ expo[1] \in {"+", "-"}
        edigits == IF esigned THEN Tail(expo) ELSE expo
        dot == IndexOf(mant, {"."})
        ipart == IF dot = 0 THEN mant ELSE SubSeq(mant, 1, dot - 1)
        fpart == IF dot = 0 THEN <<>> ELSE SubSeq(mant, dot + 1, Len(mant))
        wellformed ==
            /\ AllDigits(ipart)
            /\ AllDigits(fpart)
            /\ ipart # <<>> \/ fpart # <<>>
            /\ e # 0 => (edigits # <<>> /\ AllDigits(edigits))
        m == DigitsNat(ipart \o fpart)
        x == (IF esigned /\ expo[1] = "-" THEN -1 ELSE 1) * DigitsNat(edigits)
                 - Len(fpart)
    IN  IF low = <<"n", "a", "n">> THEN NanVal
        ELSE IF low \in {<<"i", "n", "f">>,
                         <<"i", "n", "f", "i", "n", "i", "t", "y">>}
        THEN InfVal(negative)
        ELSE IF wellformed THEN Decimal(IF negative THEN -m ELSE m, x)
        ELSE Raised("ValueError")

\* what a getter returns for the response its query got: query strips it,
\* the numeric getters pass it to float
getter_result(getter, response) ==
    IF getter \in NumericGetters
    THEN PyFloat(Strip(response))
    ELSE StrVal(Text(Strip(response)))

\* apply_command with the offset clause forgotten
apply_command_no_offset(function, frequency, amplitude, offset) ==
    LET c0 == "SOUR:APPL:" \o function
        c1 == IF frequency # NoneVal
              THEN c0 \o " " \o Format(frequency) ELSE c0
        c2 == IF \A param \in {frequency, amplitude} : param # NoneVal
              THEN c1 \o "," \o Format(amplitude) ELSE c1
    IN  c2

\* the command apply builds before writing it
apply_command(function, frequency, amplitude, offset) ==
    LET c0 == "SOUR:APPL:" \o function
        c1 == IF frequency # NoneVal
              THEN c0 \o " " \o Format(frequency) ELSE c0
        c2 == IF \A param \in {frequency, amplitude} : param # NoneVal
              THEN c1 \o "," \o Format(amplitude) ELSE c1
        c3 == IF \A param \in {frequency, amplitude, offset} : param # NoneVal
              THEN c2 \o "," \o Format(offset) ELSE c2
    IN  c3

apply_writes(function, frequency, amplitude, offset) ==
    write(<<>>, apply_command(function, frequency, amplitude, offset))

\* set_amplitude_modulation without the test of the source
set_amplitude_modulation_writes_always_int(state, source, function, frequency, depth) ==
    LET w1 == write(<<>>, "SOUR:AM:STAT " \o state)
        w2 == write(w1, "SOUR:AM:SOUR " \o source)
        w3 == write(write(w2, "SOUR:AM:INT:FUNC " \o function),
                    "SOUR:AM:INT:FREQ " \o Format(frequency))
    IN  IF state = "OFF" THEN w1
        ELSE write(w3, "SOUR:AM:DEPT " \o Format(depth))

set_amplitude_modulation_writes(state, source, function, frequency, depth) ==
    LET w1 == write(<<>>, "SOUR:AM:STAT " \o state)
        w2 == write(w1, "SOUR:AM:SOUR " \o source)
        w3 == IF source = "INT"
              THEN write(write(w2, "SOUR:AM:INT:FUNC " \o function),
                         "SOUR:AM:INT:FREQ " \o Format(frequency))
              ELSE w2
    IN  IF state = "OFF" THEN w1
        ELSE write(w3, "SOUR:AM:DEPT " \o Format(depth))

\* set_frequency_modulation with the deviation written before the
\* internal function and frequency
set_frequency_modulation_writes_deviation_early(state, source, function, frequency, deviation) ==
    LET w1 == write(<<>>, "SOUR:FM:STAT " \o state)
        w2 == write(w1, "SOUR:FM:SOUR " \o source)
        w3 == write(w2, "SOUR:FM:DEV " \o Format(deviation))
    IN  IF state = "OFF" THEN w1
        ELSE IF source = "INT"
        THEN write(write(w3, "SOUR:FM:INT:FUNC " \o function),
                   "SOUR:FM:INT:FREQ " \o Format(frequency))
        ELSE w3

set_frequency_modulation_writes(state, source, function, frequency, deviation) ==
    LET w1 == write(<<>>, "SOUR:FM:STAT " \o state)
        w2 == write(w1, "SOUR:FM:SOUR " \o source)
        w3 == IF source = "INT"
              THEN write(write(w2, "SOUR:FM:INT:FUNC " \o function),
                         "SOUR:FM:INT:FREQ " \o Format(frequency))
              ELSE w2
    IN  IF state = "OFF" THEN w1
        ELSE write(w3, "SOUR:FM:DEV " \o Format(deviation))

\* set_frequency_sweep with the stop frequency written before the start
set_frequency_sweep_writes_stop_first(state, start, stop, spacing, rate, source) ==
    LET w1 == write(<<>>, "SOUR:SWE:STAT " \o state)
        w2 == write(w1, "SOUR:FREQ:STOP " \o Format(stop))
        w3 == write(w2, "SOUR:FREQ:STAR " \o Format(start))
        w4 == write(w3, "SOUR:SWE:SPAC " \o spacing)
        w5 == write(w4, "SOUR:SWE:RATE " \o Format(rate))
    IN  IF state = "OFF" THEN w1
        ELSE write(w5, "SOUR:SWE:SOUR " \o source)

\* set_frequency_sweep without the early return
set_frequency_sweep_writes_no_return(state, start, stop, spacing, rate, source) ==
    LET w1 == write(<<>>, "SOUR:SWE:STAT " \o state)
        w2 == write(w1, "SOUR:FREQ:STAR " \o Format(start))
        w3 == write(w2, "SOUR:FREQ:STOP " \o Format(stop))
        w4 == write(w3, "SOUR:SWE:SPAC " \o spacing)
        w5 == write(w4, "SOUR:SWE:RATE " \o Format(rate))
    IN  write(w5, "SOUR:SWE:SOUR " \o source)

set_frequency_sweep_writes(state, start, stop, spacing, rate, source) ==
    LET w1 == write(<<>>, "SOUR:SWE:STAT " \o state)
        w2 == write(w1, "SOUR:FREQ:STAR " \o Format(start))
        w3 == write(w2, "SOUR:FREQ:STOP " \o Format(stop))
        w4 == write(w3, "SOUR:SWE:SPAC " \o spacing)
        w5 == write(w4, "SOUR:SWE:RATE " \o Format(rate))
    IN  IF state = "OFF" THEN w1
        ELSE write(w5, "SOUR:SWE:SOUR " \o source)

\* set_arb_data with the slot tested against range(10, 21)
set_arb_data_effect_wide_slots(data, unit, slot) ==
    IF ~(Len(data) >= MinSamples /\ Len(data) <= MaxSamples)
    THEN [written |-> <<>>, codes |-> <<>>, result |-> Raised("AssertionError")]
    ELSE IF slot \notin SlotFirst..SlotStop
    THEN [written |-> <<>>, codes |-> <<>>, result |-> Raised("AssertionError")]
    ELSE LET max_val == MaxAbs(data)
         IN IF max_val = 0
            THEN [written |-> <<>>, codes |-> <<>>,
                  result |-> ListVal([i \in 1..Len(data) |-> "0.0"])]
            ELSE LET scale == Scale(max_val, unit)
                     cs == Codes(data, scale, unit)
                     w1 == write(<<>>, "DATA:DAC VOLATILE,0," \o DataStr(cs))
                 IN IF scale = Inf
                    THEN [written |-> <<>>, codes |-> <<>>,
                          result |-> Raised(RoundError(data))]
                    ELSE [written |-> save(w1, slot), codes |-> cs,
                          result |-> NoneVal]

\* set_arb_data: what it wrote, the codes it computed and how it ended
set_arb_data_effect(data, unit, slot) ==
    IF ~(Len(data) >= MinSamples /\ Len(data) <= MaxSamples)
    THEN [written |-> <<>>, codes |-> <<>>, result |-> Raised("AssertionError")]
    ELSE IF slot \notin SlotFirst..(SlotStop - 1)
    THEN [written |-> <<>>, codes |-> <<>>, result |-> Raised("AssertionError")]
    ELSE LET max_val == MaxAbs(data)
         IN IF max_val = 0
            THEN [written |-> <<>>, codes |-> <<>>,
                  result |-> ListVal([i \in 1..Len(data) |-> "0.0"])]
            ELSE LET scale == Scale(max_val, unit)
                     cs == Codes(data, scale, unit)
                     w1 == write(<<>>, "DATA:DAC VOLATILE,0," \o DataStr(cs))
                 IN IF scale = Inf
                    THEN [written |-> <<>>, codes |-> <<>>,
                          result |-> Raised(RoundError(data))]
                    ELSE [written |-> save(w1, slot), codes |-> cs,
                          result |-> NoneVal]

(***************************************************************************)
(* Arguments the calls are made with.                                      *)
(***************************************************************************)
Functions == {"SIN", "SQU", "RAMP", "NOIS", "USER"}

\* frequency, amplitude, offset of apply: omitted, a token or a number
ApplyValues ==
    {NoneVal, StrVal("MIN"), StrVal("MAX"), StrVal("DEF"),
     IntVal(1000), FloatVal(10), FloatVal(0), FloatVal(-5)}

States == {"ON", "OFF"}

ModSources == {"INT", "EXT"}

ModFunctions == {"SIN", "SQU", "RAMP"}

\* frequency, depth, deviation, start, stop, rate: a token or a number
ModValues == {StrVal("MIN"), StrVal("MAX"), FloatVal(1000), FloatVal(500)}

Spacings == {"LIN", "LOG"}

SweepSources == {"IMM", "EXT"}

\* slots on both sides of each end of range(10, 20)
SlotInputs == {SlotFirst - 1, SlotFirst, SlotStop - 1, SlotStop}

SeqsUpTo(S, n) == UNION {[1..m -> S] : m \in 0..n}

\* every sample list of up to MaxLen samples
ShortData == SeqsUpTo(-MaxSample..MaxSample, MaxLen)

\* lists of the longest legal length and one more, all zero or all one unit
LongData == {[i \in 1..n |-> v] : n \in {MaxSamples, MaxSamples + 1}, v \in {0, 1}}

\* the unit of the samples of a list: the ordinary one, or the smallest
\* positive float
Units == {-SampleFracBits, -SubnormalBits}

\* lists of one or two samples over the wider range
EncData == UNION {[1..m -> -EncMaxSample..EncMaxSample] : m \in 1..2}

\* the argument of each scalar setter: a token or a number
SetterValues(setter) ==
    CASE setter = "set_function" -> {StrVal(f) : f \in Functions}
      [] setter = "set_output" -> {StrVal(st) : st \in States}
      [] setter = "set_output_load" -> {StrVal("DEF"), StrVal("INF")}
      [] setter = "set_voltage_unit" ->
             {StrVal("VPP"), StrVal("VRMS"), StrVal("DBM")}
      [] OTHER -> ModValues

\* responses that are decimal numerals, bare or between whitespace
NumeralResponses ==
    {<<"1", ".", "5", "\n">>,
     <<" ", "1", "0", "0", "0", " ", "\r", "\n">>,
     <<"+", "1", ".", "0", "E", "+", "0", "3", "\n">>,
     <<"-", "2", ".", "5", "e", "0">>,
     <<".", "5">>,
     <<"5", ".", "\n">>,
     <<"2", "5", "0", "e", "-", "1", "\t">>,
     <<"1", "\n">>,
     <<"0", "\n">>}

\* responses that are words, empty, or numerals with something added
OtherResponses ==
    {<<"S", "I", "N", "\n">>,
     <<"O", "N", "\n">>,
     <<"I", "N", "F", "\n">>,
     <<"n", "a", "n", "\n">>,
     <<"\n">>,
     <<"1", ".", "5", " ", "V">>,
     <<"1", ",", "5">>,
     <<"1", "e">>,
     <<"1", ".", "2", ".", "3">>}

Responses == NumeralResponses \cup OtherResponses

(***************************************************************************)
(* State machine.                                                          *)
(***************************************************************************)
NoCall == [op |-> "none"]

\* afg = AFG2125("ASRL9::INSTR")
ExampleAddress == "ASRL9::INSTR"

\* after afg = AFG2125("ASRL9::INSTR"): the caller holds control, nothing
\* written
Init ==
    /\ call = NoCall
    /\ written = <<>>
    /\ codes = <<>>
    /\ result = NoneVal
    /\ prev = NoneVal
    /\ queried = <<>>
    /\ pc = "none"
    /\ resource = AFG2125(<<>>, "afg", ExampleAddress)
    /\ handles = open_resource(<<>>, ExampleAddress)
    /\ received = [a \in {ExampleAddress} |-> <<>>]
    /\ threads = <<>>

\* the method returns (or its exception propagates) and the caller, done
\* with the outcome, moves on to its next call
return_to_caller ==
    /\ call # NoCall
    /\ call' = NoCall
    /\ written' = <<>>
    /\ codes' = <<>>
    /\ result' = NoneVal
    /\ prev' = NoneVal
    /\ queried' = <<>>
    /\ UNCHANGED session

apply(function, frequency, amplitude, offset) ==
    /\ call = NoCall
    /\ call' = [op |-> "apply", function |-> function, frequency |-> frequency,
                amplitude |-> amplitude, offset |-> offset]
    /\ written' = apply_writes(function, frequency, amplitude, offset)
    /\ result' = NoneVal
    /\ codes' = <<>>
    /\ queried' = <<>>
    /\ UNCHANGED <<prev, session>>

set_amplitude_modulation(state, source, function, frequency, depth) ==
    /\ call = NoCall
    /\ call' = [op |-> "set_amplitude_modulation", state |-> state,
                source |-> source, function |-> function,
                frequency |-> frequency, depth |-> depth]
    /\ written' = set_amplitude_modulation_writes(state, source, function,
                                                  frequency, depth)
    /\ result' = NoneVal
    /\ codes' = <<>>
    /\ queried' = <<>>
    /\ UNCHANGED <<prev, session>>

set_frequency_modulation(state, source, function, frequency, deviation) ==
    /\ call = NoCall
    /\ call' = [op |-> "set_frequency_modulation", state |-> state,
                source |-> source, function |-> function,
                frequency |-> frequency, deviation |-> deviation]
    /\ written' = set_frequency_modulation_writes(state, source, function,
                                                  frequency, deviation)
    /\ result' = NoneVal
    /\ codes' = <<>>
    /\ queried' = <<>>
    /\ UNCHANGED <<prev, session>>

set_frequency_sweep(state, start, stop, spacing, rate, source) ==
    /\ call = NoCall
    /\ call' = [op |-> "set_frequency_sweep", state |-> state, start |-> start,
                stop |-> stop, spacing |-> spacing, rate |-> rate,
                source |-> source]
    /\ written' = set_frequency_sweep_writes(state, start, stop, spacing,
                                             rate, source)
    /\ result' = NoneVal
    /\ codes' = <<>>
    /\ queried' = <<>>
    /\ UNCHANGED <<prev, session>>

save_slot(slot) ==
    /\ call = NoCall
    /\ call' = [op |-> "save", slot |-> slot]
    /\ written' = save(<<>>, slot)
    /\ result' = NoneVal
    /\ codes' = <<>>
    /\ queried' = <<>>
    /\ UNCHANGED <<prev, session>>

recall_slot(slot) ==
    /\ call = NoCall
    /\ call' = [op |-> "recall", slot |-> slot]
    /\ written' = recall(<<>>, slot)
    /\ result' = NoneVal
    /\ codes' = <<>>
    /\ queried' = <<>>
    /\ UNCHANGED <<prev, session>>

set_arb_data_call(data, unit, slot) ==
    LET e == set_arb_data_effect(data, unit, slot)
    IN  /\ call' = [op |-> "set_arb_data", data |-> data, unit |-> unit,
                    slot |-> slot]
        /\ written' = e.written
        /\ codes' = e.codes
        /\ result' = e.result
        /\ queried' = <<>>

set_arb_data(data, unit, slot) ==
    /\ call = NoCall
    /\ set_arb_data_call(data, unit, slot)
    /\ UNCHANGED <<prev, session>>

Next ==
    \/ \E function \in Functions, frequency, amplitude, offset \in ApplyValues :
          apply(function, frequency, amplitude, offset)
    \/ \E state \in States, source \in ModSources, function \in ModFunctions,
          frequency, depth \in ModValues :
          set_amplitude_modulation(state, source, function, frequency, depth)
    \/ \E state \in States, source \in ModSources, function \in ModFunctions,
          frequency, deviation \in ModValues :
          set_frequency_modulation(state, source, function, frequency, deviation)
    \/ \E state \in States, start, stop, rate \in ModValues,
          spacing \in Spacings, source \in SweepSources :
          set_frequency_sweep(state, start, stop, spacing, rate, source)
    \/ \E data \in ShortData, unit \in Units, slot \in SlotInputs :
          set_arb_data(data, unit, slot)
    \/ \E data \in LongData, unit \in Units, slot \in SlotInputs :
          set_arb_data(data, unit, slot)
    \/ \E slot \in SlotInputs : save_slot(slot)
    \/ \E slot \in SlotInputs : recall_slot(slot)
    \/ return_to_caller

Spec == Init /\ [][Next]_vars

(***************************************************************************)
(* SpecEnc: the encoder of set_arb_data on its own, over a wider range of  *)
(* samples.                                                                *)
(***************************************************************************)
NextEnc ==
    \/ \E data \in EncData \cup (ShortData \ {<<>>}), unit \in Units :
          set_arb_data(data, unit, SlotFirst)
    \/ return_to_caller

SpecEnc == Init /\ [][NextEnc]_vars

(***************************************************************************)
(* SpecScale: a session of two uploads, the second of the first's samples  *)
(* multiplied by a constant k.                                             *)
(***************************************************************************)
\* [k * x for x in data]
Rescaled(data, k) == [i \in 1..Len(data) |-> k * data[i]]

first_upload(data, unit) ==
    /\ call = NoCall
    /\ set_arb_data_call(data, unit, SlotFirst)
    /\ UNCHANGED <<prev, session>>

rescaled_upload(k) ==
    /\ call.op = "set_arb_data"
    /\ prev = NoneVal
    /\ prev' = [data |-> call.data, written |-> written, codes |-> codes,
                result |-> result, k |-> k]
    /\ set_arb_data_call(Rescaled(call.data, k), call.unit, call.slot)
    /\ UNCHANGED session

NextScale ==
    \/ \E data \in ShortData \ {<<>>}, unit \in Units : first_upload(data, unit)
    \/ \E k \in 1..MaxK : rescaled_upload(k)
    \/ return_to_caller

SpecScale == Init /\ [][NextScale]_vars

(***************************************************************************)
(* SpecScalar: the scalar setters and getters, and a getter called again   *)
(* straight after a getter.                                                *)
(***************************************************************************)
scalar_set(setter, value) ==
    /\ call = NoCall
    /\ call' = [op |-> setter, value |-> value]
    /\ written' = setter_writes(setter, value)
    /\ queried' = <<>>
    /\ result' = NoneVal
    /\ codes' = <<>>
    /\ UNCHANGED <<prev, session>>

scalar_get_call(getter, response) ==
    /\ call' = [op |-> getter, response |-> response]
    /\ written' = <<>>
    /\ queried' = query(<<>>, getter_command(getter))
    /\ result' = getter_result(getter, response)
    /\ codes' = <<>>

scalar_get(getter, response) ==
    /\ call = NoCall
    /\ scalar_get_call(getter, response)
    /\ UNCHANGED <<prev, session>>

\* a getter that answers from the preceding call of the same getter
scalar_get_again_cached(getter, response) ==
    /\ call.op \in ScalarGetters
    /\ prev = NoneVal
    /\ prev' = [call |-> call, queried |-> queried, result |-> result]
    /\ IF getter = call.op
       THEN /\ call' = [op |-> getter, response |-> response]
            /\ queried' = <<>>
            /\ UNCHANGED <<written, result, codes>>
       ELSE scalar_get_call(getter, response)
    /\ UNCHANGED session

\* the caller's next call after a getter returned: a getter
scalar_get_again(getter, response) ==
    /\ call.op \in ScalarGetters
    /\ prev = NoneVal
    /\ prev' = [call |-> call, queried |-> queried, result |-> result]
    /\ scalar_get_call(getter, response)
    /\ UNCHANGED session

NextScalar ==
    \/ \E setter \in ScalarSetters : \E value \in SetterValues(setter) :
          scalar_set(setter, value)
    \/ \E getter \in ScalarGetters, response \in Responses :
          scalar_get(getter, response)
    \/ \E getter \in ScalarGetters, response \in Responses :
          scalar_get_again(getter, response)
    \/ return_to_caller

SpecScalar == Init /\ [][NextScalar]_vars

(***************************************************************************)
(* A transport that fails.  Resource.write raises at the fail_at-th call   *)
(* a method makes of it (0: at none); the driver catches nothing, so the   *)
(* exception ends the method and reaches the caller.                       *)
(***************************************************************************)
\* the exception of the transport, whichever of pyvisa's it is
TransportError == "pyvisa.errors.Error"

\* run_writes with the write that failed issued once more before giving up
RECURSIVE run_writes_retry(_, _, _)
run_writes_retry(w, cmds, fail_at) ==
    IF cmds = <<>> THEN [written |-> w, raised |-> FALSE]
    ELSE LET w1 == write(w, Head(cmds))
         IN  IF Len(w1) = fail_at
             THEN [written |-> write(w1, Head(cmds)), raised |-> TRUE]
             ELSE run_writes_retry(w1, Tail(cmds), fail_at)

\* the calls of self.write a method makes after those in w, cmds being the
\* commands of its write statements in order
RECURSIVE run_writes(_, _, _)
run_writes(w, cmds, fail_at) ==
    IF cmds = <<>> THEN [written |-> w, raised |-> FALSE]
    ELSE LET w1 == write(w, Head(cmds))
         IN  IF Len(w1) = fail_at
             THEN [written |-> w1, raised |-> TRUE]
             ELSE run_writes(w1, Tail(cmds), fail_at)

\* a method whose effect on a sound transport is e, on the failing one
under_faults(e, fail_at) ==
    LET r == run_writes(<<>>, e.written, fail_at)
    IN  [written |-> r.written, codes |-> e.codes,
         result |-> IF r.raised THEN Raised(TransportError) ELSE e.result]

(***************************************************************************)
(* SpecMain: the main program of src/example.py, statement by statement,   *)
(* over the sample lists and slots of the model and a transport that may   *)
(* fail.  An exception no statement catches ends the program.              *)
(***************************************************************************)
InitMain ==
    /\ call = NoCall
    /\ written = <<>>
    /\ codes = <<>>
    /\ result = NoneVal
    /\ prev = NoneVal
    /\ queried = <<>>
    /\ pc = "construct"
    /\ resource = <<>>
    /\ handles = <<>>
    /\ received = <<>>
    /\ threads = <<>>

\* afg = AFG2125("ASRL9::INSTR"); open_resource raises when fail
main_construct(fail) ==
    /\ pc = "construct"
    /\ call' = [op |-> "AFG2125", resource_name |-> ExampleAddress]
    /\ written' = <<>>
    /\ codes' = <<>>
    /\ queried' = <<>>
    /\ IF fail
       THEN /\ result' = Raised(TransportError)
            /\ pc' = "exit"
            /\ UNCHANGED <<resource, handles>>
       ELSE /\ result' = NoneVal
            /\ pc' = "set_arb_data"
            /\ resource' = AFG2125(resource, "afg", ExampleAddress)
            /\ handles' = open_resource(handles, ExampleAddress)
    /\ UNCHANGED <<prev, received, threads>>

\* afg.set_arb_data(sine, slot=10)
main_set_arb_data(data, unit, slot, fail_at) ==
    LET e == under_faults(set_arb_data_effect(data, unit, slot), fail_at)
    IN  /\ pc = "set_arb_data"
        /\ call' = [op |-> "set_arb_data", data |-> data, unit |-> unit,
                    slot |-> slot, fail_at |-> fail_at]
        /\ written' = e.written
        /\ codes' = e.codes
        /\ result' = e.result
        /\ queried' = <<>>
        /\ pc' = IF e.result.kind = "raise" THEN "exit" ELSE "apply"
        /\ UNCHANGED <<prev, resource, handles, received, threads>>

\* afg.apply(function="USER", frequency=1000, amplitude=1.0, offset=0.0)
main_apply(fail_at) ==
    LET e == under_faults(
                 [written |-> apply_writes("USER", IntVal(1000), FloatVal(10),
                                           FloatVal(0)),
                  codes |-> <<>>, result |-> NoneVal], fail_at)
    IN  /\ pc = "apply"
        /\ call' = [op |-> "apply", function |-> "USER",
                    frequency |-> IntVal(1000), amplitude |-> FloatVal(10),
                    offset |-> FloatVal(0), fail_at |-> fail_at]
        /\ written' = e.written
        /\ codes' = e.codes
        /\ result' = e.result
        /\ queried' = <<>>
        /\ pc' = IF e.result.kind = "raise" THEN "exit" ELSE "close"
        /\ UNCHANGED <<prev, resource, handles, received, threads>>

\* afg.close()
main_close ==
    /\ pc = "close"
    /\ call' = [op |-> "close"]
    /\ written' = <<>>
    /\ codes' = <<>>
    /\ result' = NoneVal
    /\ queried' = <<>>
    /\ handles' = close(handles, resource["afg"])
    /\ pc' = "exit"
    /\ UNCHANGED <<prev, resource, received, threads>>

NextMain ==
    \/ \E fail \in BOOLEAN : main_construct(fail)
    \/ \E data \in ShortData, unit \in Units, slot \in SlotInputs,
          fail_at \in 0..2 :
          main_set_arb_data(data, unit, slot, fail_at)
    \/ \E fail_at \in 0..1 : main_apply(fail_at)
    \/ main_close

SpecMain == InitMain /\ [][NextMain]_vars

(***************************************************************************)
(* SpecFault: one session on a transport that may fail any write or      *)
(* query, with close() among the calls.  The driver keeps no record of     *)
(* close(): the methods called after it run as before it and hand their    *)
(* first command to the closed handle, which refuses it.                   *)
(***************************************************************************)
Closed == handles[resource["afg"]] = "closed"

faulty_call(c, e, fail_at) ==
    LET f == under_faults(e, fail_at)
    IN  /\ call = NoCall
        /\ fail_at <= Len(e.written)
        /\ (Closed /\ e.written # <<>>) => fail_at = 1
        /\ call' = c
        /\ written' = f.written
        /\ codes' = f.codes
        /\ result' = f.result
        /\ queried' = <<>>
        /\ UNCHANGED <<prev, session>>

set_arb_data_faulty(data, unit, slot, fail_at) ==
    faulty_call([op |-> "set_arb_data", data |-> data, unit |-> unit,
                 slot |-> slot, fail_at |-> fail_at],
                set_arb_data_effect(data, unit, slot), fail_at)

set_amplitude_modulation_faulty(state, source, function, frequency, depth, fail_at) ==
    faulty_call([op |-> "set_amplitude_modulation", state |-> state,
                 source |-> source, function |-> function,
                 frequency |-> frequency, depth |-> depth,
                 fail_at |-> fail_at],
                [written |-> set_amplitude_modulation_writes(
                                 state, source, function, frequency, depth),
                 codes |-> <<>>, result |-> NoneVal], fail_at)

set_frequency_modulation_faulty(state, source, function, frequency, deviation, fail_at) ==
    faulty_call([op |-> "set_frequency_modulation", state |-> state,
                 source |-> source, function |-> function,
                 frequency |-> frequency, deviation |-> deviation,
                 fail_at |-> fail_at],
                [written |-> set_frequency_modulation_writes(
                                 state, source, function, frequency, deviation),
                 codes |-> <<>>, result |-> NoneVal], fail_at)

set_frequency_sweep_faulty(state, start, stop, spacing, rate, source, fail_at) ==
    faulty_call([op |-> "set_frequency_sweep", state |-> state,
                 start |-> start, stop |-> stop, spacing |-> spacing,
                 rate |-> rate, source |-> source, fail_at |-> fail_at],
                [written |-> set_frequency_sweep_writes(
                                 state, start, stop, spacing, rate, source),
                 codes |-> <<>>, result |-> NoneVal], fail_at)

scalar_set_faulty(setter, value, fail_at) ==
    faulty_call([op |-> setter, value |-> value, fail_at |-> fail_at],
                [written |-> setter_writes(setter, value), codes |-> <<>>,
                 result |-> NoneVal], fail_at)

\* a getter whose query the transport fails when fail
scalar_get_faulty(getter, response, fail) ==
    /\ call = NoCall
    /\ Closed => fail
    /\ call' = [op |-> getter, response |-> response, fail |-> fail]
    /\ written' = <<>>
    /\ queried' = query(<<>>, getter_command(getter))
    /\ result' = IF fail THEN Raised(TransportError)
                 ELSE getter_result(getter, response)
    /\ codes' = <<>>
    /\ UNCHANGED <<prev, session>>

\* afg.close()
close_session ==
    /\ call = NoCall
    /\ call' = [op |-> "close"]
    /\ written' = <<>>
    /\ codes' = <<>>
    /\ result' = NoneVal
    /\ queried' = <<>>
    /\ handles' = close(handles, resource["afg"])
    /\ UNCHANGED <<prev, pc, resource, received, threads>>

NextFault ==
    \/ \E data \in SeqsUpTo(-MaxSample..MaxSample, 2), unit \in Units,
          fail_at \in 0..2 :
          set_arb_data_faulty(data, unit, SlotFirst, fail_at)
    \/ \E state \in States, source \in ModSources, function \in ModFunctions,
          frequency, depth \in ModValues, fail_at \in 0..5 :
          set_amplitude_modulation_faulty(state, source, function, frequency,
                                          depth, fail_at)
    \/ \E state \in States, source \in ModSources, function \in ModFunctions,
          frequency, deviation \in ModValues, fail_at \in 0..5 :
          set_frequency_modulation_faulty(state, source, function, frequency,
                                          deviation, fail_at)
    \/ \E state \in States, start, stop, rate \in {StrVal("MIN"), FloatVal(1000)},
          spacing \in Spacings, source \in SweepSources, fail_at \in 0..6 :
          set_frequency_sweep_faulty(state, start, stop, spacing, rate, source,
                                     fail_at)
    \/ \E setter \in ScalarSetters, fail_at \in 0..1 :
          \E value \in SetterValues(setter) :
              scalar_set_faulty(setter, value, fail_at)
    \/ \E getter \in ScalarGetters, response \in Responses, fail \in BOOLEAN :
          scalar_get_faulty(getter, response, fail)
    \/ close_session
    \/ return_to_caller

SpecFault == Init /\ [][NextFault]_vars

(***************************************************************************)
(* SpecPair and SpecShared: two threads calling methods, step by step.  A  *)
(* thread picks a call, hands the commands of that call to the handle of   *)
(* its session one at a time, each command staying in flight from the      *)
(* moment Resource.write (or query) is entered until it returns, and then  *)
(* returns from the call.  The driver takes no lock, so the steps of the   *)
(* two threads interleave freely.  In SpecPair each thread has a session   *)
(* of its own, opened on its own address; in SpecShared both work on one   *)
(* session.                                                                *)
(***************************************************************************)
Threads == {"t1", "t2"}

\* a second address, for the second session of SpecPair
OtherAddress == "ASRL10::INSTR"

\* the calls a thread chooses from
ThreadCalls ==
    {[op |-> "set_amplitude_modulation", state |-> "ON", source |-> "INT",
      function |-> "SIN", frequency |-> FloatVal(1000), depth |-> FloatVal(500)],
     [op |-> "set_arb_data", data |-> <<2, -1, 0, 1>>, unit |-> -SampleFracBits,
      slot |-> SlotFirst],
     [op |-> "set_frequency", value |-> FloatVal(1000)],
     [op |-> "get_frequency"]}

\* the commands a call hands to the transport, in order
thread_commands(c) ==
    CASE c.op = "set_amplitude_modulation" ->
             set_amplitude_modulation_writes(c.state, c.source, c.function,
                                             c.frequency, c.depth)
      [] c.op = "set_arb_data" ->
             set_arb_data_effect(c.data, c.unit, c.slot).written
      [] c.op \in ScalarSetters -> setter_writes(c.op, c.value)
      [] c.op \in ScalarGetters -> query(<<>>, getter_command(c.op))

\* a thread that works on the session self and has made no call yet
idle_thread(self) ==
    [self |-> self, call |-> NoCall, cmds |-> <<>>, sent |-> 0,
     inflight |-> FALSE, issued |-> <<>>, calls |-> 0]

InitThreads ==
    /\ call = NoCall
    /\ written = <<>>
    /\ codes = <<>>
    /\ result = NoneVal
    /\ prev = NoneVal
    /\ queried = <<>>
    /\ pc = "none"
    /\ received = [a \in DOMAIN handles |-> <<>>]

\* afg1 = AFG2125("ASRL9::INSTR"); afg2 = AFG2125("ASRL10::INSTR")
InitPair ==
    /\ resource = AFG2125(AFG2125(<<>>, "afg1", ExampleAddress),
                          "afg2", OtherAddress)
    /\ handles = open_resource(open_resource(<<>>, ExampleAddress),
                               OtherAddress)
    /\ threads = [t \in Threads |->
                     idle_thread(IF t = "t1" THEN "afg1" ELSE "afg2")]
    /\ InitThreads

\* afg = AFG2125("ASRL9::INSTR"), handed to both threads
InitShared ==
    /\ resource = AFG2125(<<>>, "afg", ExampleAddress)
    /\ handles = open_resource(<<>>, ExampleAddress)
    /\ threads = [t \in Threads |-> idle_thread("afg")]
    /\ InitThreads

sequential == <<call, written, codes, result, prev, queried, pc>>

\* thread t calls a method of its session
thread_call(t, c) ==
    /\ threads[t].call = NoCall
    /\ threads[t].calls < MaxCalls
    /\ threads' = [threads EXCEPT ![t].call = c,
                                  ![t].cmds = thread_commands(c),
                                  ![t].sent = 0,
                                  ![t].calls = @ + 1]
    /\ UNCHANGED <<sequential, resource, handles, received>>

\* thread t enters self._resource.write (or query) with the next command
\* of its call: the handle of its session is given the command
transport_begin(t) ==
    LET th == threads[t]
    IN  /\ th.call # NoCall
        /\ ~th.inflight
        /\ th.sent < Len(th.cmds)
        /\ received' = [received EXCEPT ![resource[th.self]] =
                            Append(@, th.cmds[th.sent + 1])]
        /\ threads' = [threads EXCEPT ![t].inflight = TRUE,
                                      ![t].issued =
                                          Append(@, th.cmds[th.sent + 1])]
        /\ UNCHANGED <<sequential, resource, handles>>

\* the transport completes the command of thread t
transport_end(t) ==
    /\ threads[t].inflight
    /\ threads' = [threads EXCEPT ![t].inflight = FALSE, ![t].sent = @ + 1]
    /\ UNCHANGED <<sequential, resource, handles, received>>

\* the method thread t called has run its last statement
thread_return(t) ==
    /\ threads[t].call # NoCall
    /\ ~threads[t].inflight
    /\ threads[t].sent = Len(threads[t].cmds)
    /\ threads' = [threads EXCEPT ![t].call = NoCall, ![t].cmds = <<>>,
                                  ![t].sent = 0]
    /\ UNCHANGED <<sequential, resource, handles, received>>

NextThreads ==
    \/ \E t \in Threads, c \in ThreadCalls : thread_call(t, c)
    \/ \E t \in Threads : transport_begin(t)
    \/ \E t \in Threads : transport_end(t)
    \/ \E t \in Threads : thread_return(t)

SpecPair == InitPair /\ [][NextThreads]_vars

SpecShared == InitShared /\ [][NextThreads]_vars

(***************************************************************************)
(* Properties.                                                             *)
(***************************************************************************)
\* amplitude only with frequency, offset only with frequency and amplitude
LegalPrefix(c) ==
    /\ c.amplitude # NoneVal => c.frequency # NoneVal
    /\ c.offset # NoneVal => (c.frequency # NoneVal /\ c.amplitude # NoneVal)

\* the parameters of an apply call that were supplied, in declared order
Supplied(c) ==
    SelectSeq(<<c.frequency, c.amplitude, c.offset>>, LAMBDA v : v # NoneVal)

ValidLength(data) == Len(data) >= 1 /\ Len(data) <= 4096

ValidSlot(slot) == slot >= 10 /\ slot <= 19

ArbCall == call.op = "set_arb_data"

\* C1: an apply call whose supplied parameters are not a prefix of
\* (frequency, amplitude, offset) fails with InvalidIntent and writes nothing.
C1_IllegalPrefixRejected ==
    (call.op = "apply" /\ ~LegalPrefix(call))
        => (result = Raised("InvalidIntent") /\ written = <<>>)

\* C2: set_arb_data of an all-zero list of valid length N to a valid slot
\* raises nothing and uploads DATA:DAC VOLATILE,0, followed by N zeros.
C2_ZeroWaveformUploaded ==
    (ArbCall /\ ValidLength(call.data) /\ ValidSlot(call.slot)
        /\ \A i \in 1..Len(call.data) : call.data[i] = 0)
        => /\ result.kind # "raise"
           /\ written # <<>>
           /\ written[1] = "DATA:DAC VOLATILE,0,"
                               \o Join([i \in 1..Len(call.data) |-> "0"], ",")

\* C3: set_arb_data with a list of valid length and a valid slot writes
\* exactly two commands: the DATA:DAC VOLATILE,0,<codes> upload, one code
\* per sample, then *SAV <slot>.
C3_UploadThenSave ==
    (ArbCall /\ ValidLength(call.data) /\ ValidSlot(call.slot))
        => /\ Len(written) = 2
           /\ Len(codes) = Len(call.data)
           /\ written[1] = "DATA:DAC VOLATILE,0," \o DataStr(codes)
           /\ written[2] = "*SAV " \o IntStr(call.slot)

\* C4: set_arb_data with a sample count outside [1,4096] or a slot outside
\* [10,19] fails with an error and has written nothing.
C4_InvalidArgumentsRejected ==
    (ArbCall /\ (~ValidLength(call.data) \/ ~ValidSlot(call.slot)))
        => (result.kind = "raise" /\ written = <<>>)

\* a list one sample too long, sent to a valid slot, is refused unwritten
C4_Witness ==
    /\ ArbCall
    /\ Len(call.data) = 4097
    /\ call.slot = 19
    /\ result.kind = "raise"
    /\ written = <<>>

\* C5 as stated: set_amplitude_modulation with state ON and source EXT
\* writes exactly two commands, the state and the depth.
C5_ExternalTwoCommands ==
    (call.op = "set_amplitude_modulation" /\ call.state = "ON"
        /\ call.source = "EXT")
        => written = <<"SOUR:AM:STAT ON", "SOUR:AM:DEPT " \o Format(call.depth)>>

\* C5 amended: set_amplitude_modulation with state ON and source EXT writes
\* exactly three commands, the state, the source and the depth, and no
\* internal-function or internal-frequency command.
C5_ExternalThreeCommands ==
    (call.op = "set_amplitude_modulation" /\ call.state = "ON"
        /\ call.source = "EXT")
        => written = <<"SOUR:AM:STAT ON", "SOUR:AM:SOUR EXT",
                       "SOUR:AM:DEPT " \o Format(call.depth)>>

C5_Witness ==
    /\ call.op = "set_amplitude_modulation"
    /\ call.state = "ON"
    /\ call.source = "EXT"
    /\ call.depth = FloatVal(500)
    /\ Len(written) = 3
    /\ written[3] = "SOUR:AM:DEPT 50.0"

\* C6: with state OFF, set_amplitude_modulation, set_frequency_modulation
\* and set_frequency_sweep each write exactly one command, the state-off
\* command, whatever the other arguments.
C6_StateOffOneWrite ==
    /\ (call.op = "set_amplitude_modulation" /\ call.state = "OFF")
           => written = <<"SOUR:AM:STAT OFF">>
    /\ (call.op = "set_frequency_modulation" /\ call.state = "OFF")
           => written = <<"SOUR:FM:STAT OFF">>
    /\ (call.op = "set_frequency_sweep" /\ call.state = "OFF")
           => written = <<"SOUR:SWE:STAT OFF">>

\* a sweep switched off with arguments other than the defaults
C6_Witness ==
    /\ call.op = "set_frequency_sweep"
    /\ call.state = "OFF"
    /\ call.start = StrVal("MAX")
    /\ call.spacing = "LOG"
    /\ call.source = "EXT"
    /\ written = <<"SOUR:SWE:STAT OFF">>

\* C7: an apply call with a legal parameter prefix writes exactly one
\* command: SOUR:APPL:<FUNC>, then, when parameters are supplied, a space
\* and the supplied values in (frequency, amplitude, offset) order joined
\* by commas, each as the caller gave it.
C7_LegalPrefixOneWrite ==
    (call.op = "apply" /\ LegalPrefix(call))
        => LET vals == Supplied(call)
               texts == [i \in 1..Len(vals) |-> Format(vals[i])]
           IN written = <<"SOUR:APPL:" \o call.function
                            \o (IF vals = <<>> THEN "" ELSE " " \o Join(texts, ","))>>

\* all three parameters supplied, as in the example session
C7_Witness ==
    /\ call.op = "apply"
    /\ call.function = "USER"
    /\ call.frequency = IntVal(1000)
    /\ call.amplitude = FloatVal(10)
    /\ call.offset = FloatVal(0)
    /\ written = <<"SOUR:APPL:USER 1000,1.0,0.0">>

\* num / den rounded to the nearest integer, ties away from zero (den > 0)
HalfAway(num, den) ==
    (IF num < 0 THEN -1 ELSE 1) * ((2 * Abs(num) + den) \div (2 * den))

\* C8: the encoder maps every sample x to x * 511 / peak rounded to the
\* nearest integer, ties away from zero; [1.0, -0.5, 0.0, 0.5] gives the
\* upload DATA:DAC VOLATILE,0,511,-256,0,256.
C8_TiesAwayFromZero ==
    /\ (ArbCall /\ result = NoneVal)
           => codes = [i \in 1..Len(call.data) |->
                          HalfAway(call.data[i] * 511, MaxAbs(call.data))]
    /\ (ArbCall /\ call.data = <<2, -1, 0, 1>> /\ call.unit = -1)
           => (written # <<>> /\ written[1] = "DATA:DAC VOLATILE,0,511,-256,0,256")

\* C9: for a list with nonzero peak every code lies in [-511, 511], some
\* code has absolute value 511, and every sample of maximal absolute value
\* is encoded as 511 with the sign of the sample.
C9_CodesWithinFullScale ==
    (ArbCall /\ ValidLength(call.data) /\ ValidSlot(call.slot)
        /\ MaxAbs(call.data) # 0)
        => /\ Len(codes) = Len(call.data)
           /\ \A i \in 1..Len(codes) : codes[i] >= -511 /\ codes[i] <= 511
           /\ \E i \in 1..Len(codes) : Abs(codes[i]) = 511
           /\ \A i \in 1..Len(codes) :
                  Abs(call.data[i]) = MaxAbs(call.data)
                      => codes[i] = (IF call.data[i] < 0 THEN -511 ELSE 511)

\* C10: encoding a list with nonzero peak and the list with every sample
\* multiplied by a positive constant k gives the same codes and the same
\* upload command.
C10_ScaleInvariant ==
    (ArbCall /\ prev # NoneVal /\ MaxAbs(prev.data) # 0)
        => (codes = prev.codes /\ written = prev.written)
\* C11: save and recall with a slot outside [10,19] write nothing, and
\* every *SAV n or *RCL n written has 10 <= n <= 19.
C11_SlotsWithinRange ==
    /\ (call.op \in {"save", "recall"} /\ ~ValidSlot(call.slot))
           => written = <<>>
    /\ \A i \in 1..Len(written), n \in SlotInputs :
           ~ValidSlot(n) => written[i] \notin {"*SAV " \o IntStr(n),
                                               "*RCL " \o IntStr(n)}

\* C12: the handle the constructor opened is closed on every exit path of
\* the example session, the paths on which an operation fails included:
\* the program never ends with a handle left open.
C12_ClosedAtExit ==
    pc = "exit" => \A a \in DOMAIN handles : handles[a] = "closed"

\* C13: with two sessions opened on distinct addresses, under every
\* interleaving each handle is given exactly the commands the thread of
\* its own session issued, in the order that thread issued them, which is
\* what it would be given if the session ran alone.
C13_OwnHandleOnly ==
    \A t \in DOMAIN threads :
        received[resource[threads[t].self]] = threads[t].issued

\* both threads inside Resource.write at once, each handle given the
\* command of its own session only
C13_Witness ==
    /\ DOMAIN threads = Threads
    /\ resource[threads["t1"].self] # resource[threads["t2"].self]
    /\ threads["t1"].inflight
    /\ threads["t2"].inflight
    /\ received[ExampleAddress] = <<"SOUR:AM:STAT ON", "SOUR:AM:SOUR INT">>
    /\ received[OtherAddress] = <<"SOUR:FREQ?", "SOUR:FREQ 100.0">>

MultiWriteOps ==
    {"set_arb_data", "set_amplitude_modulation", "set_frequency_modulation",
     "set_frequency_sweep"}

\* the commands a multi-write call writes when no write fails
Intended(c) ==
    CASE c.op = "set_arb_data" ->
             set_arb_data_effect(c.data, c.unit, c.slot).written
      [] c.op = "set_amplitude_modulation" ->
             set_amplitude_modulation_writes(c.state, c.source, c.function,
                                             c.frequency, c.depth)
      [] c.op = "set_frequency_modulation" ->
             set_frequency_modulation_writes(c.state, c.source, c.function,
                                             c.frequency, c.deviation)
      [] c.op = "set_frequency_sweep" ->
             set_frequency_sweep_writes(c.state, c.start, c.stop, c.spacing,
                                        c.rate, c.source)

\* a multi-write call whose fail_at-th write the transport failed
FailedCall ==
    call.op \in MultiWriteOps /\ "fail_at" \in DOMAIN call /\ call.fail_at >= 1

\* C14: when the transport fails a write of a multi-write operation, the
\* operation ends with the transport's error, and the commands it handed
\* to the transport are the intended ones up to the failed one, each once:
\* the failed command is not tried again and none after it is written (a
\* failed DATA:DAC upload is not followed by *SAV).
C14_FailureEndsOperation ==
    FailedCall =>
        /\ result = Raised(TransportError)
        /\ written = SubSeq(Intended(call), 1, call.fail_at)
        /\ \A i, j \in 1..Len(written) : i # j => written[i] # written[j]
        /\ (call.op = "set_arb_data" /\ call.fail_at = 1)
               => \A i \in 1..Len(written) :
                      written[i] # "*SAV " \o IntStr(call.slot)

\* the third of the five writes of an amplitude modulation fails
C14_Witness ==
    /\ call.op = "set_amplitude_modulation"
    /\ "fail_at" \in DOMAIN call
    /\ call.fail_at = 3
    /\ call.frequency = FloatVal(1000)
    /\ result = Raised(TransportError)
    /\ written = <<"SOUR:AM:STAT ON", "SOUR:AM:SOUR INT",
                   "SOUR:AM:INT:FUNC RAMP">>

\* the letters of a modulation in its commands
ModLetters(op) == IF op = "set_amplitude_modulation" THEN "AM" ELSE "FM"

\* the last argument of a modulation call, rendered as its last command
LastCommand(c) ==
    IF c.op = "set_amplitude_modulation"
    THEN "SOUR:AM:DEPT " \o Format(c.depth)
    ELSE "SOUR:FM:DEV " \o Format(c.deviation)

\* every internal-function and internal-frequency command of a modulation
InternalCommands(op) ==
    {"SOUR:" \o ModLetters(op) \o ":INT:FUNC " \o f : f \in ModFunctions}
        \cup {"SOUR:" \o ModLetters(op) \o ":INT:FREQ " \o Format(v) :
                  v \in ModValues}

\* C15: set_amplitude_modulation and set_frequency_modulation with state
\* ON write the state command first, the source command second and the
\* depth (deviation) command last; the internal-function and
\* internal-frequency commands are written, third and fourth in this
\* order, if and only if the source is INT.
C15_ModulationOrder ==
    (call.op \in {"set_amplitude_modulation", "set_frequency_modulation"}
        /\ call.state = "ON")
        => LET m == ModLetters(call.op)
               n == Len(written)
           IN  /\ n >= 3
               /\ written[1] = "SOUR:" \o m \o ":STAT ON"
               /\ written[2] = "SOUR:" \o m \o ":SOUR " \o call.source
               /\ written[n] = LastCommand(call)
               /\ (\E i \in 1..n : written[i] \in InternalCommands(call.op))
                      <=> call.source = "INT"
               /\ call.source = "INT"
                      => /\ n = 5
                         /\ written[3] = "SOUR:" \o m \o ":INT:FUNC "
                                             \o call.function
                         /\ written[4] = "SOUR:" \o m \o ":INT:FREQ "
                                             \o Format(call.frequency)
               /\ call.source = "EXT" => n = 3

\* a frequency modulation from the internal source: five writes
C15_Witness ==
    /\ call.op = "set_frequency_modulation"
    /\ call.state = "ON"
    /\ call.source = "INT"
    /\ written = <<"SOUR:FM:STAT ON", "SOUR:FM:SOUR INT",
                   "SOUR:FM:INT:FUNC SQU", "SOUR:FM:INT:FREQ MAX",
                   "SOUR:FM:DEV 50.0">>

\* C16: set_frequency_sweep with state ON writes exactly six commands, in
\* order the state, start, stop, spacing, rate and source commands.
C16_SweepSixWrites ==
    (call.op = "set_frequency_sweep" /\ call.state = "ON")
        => written = <<"SOUR:SWE:STAT ON",
                       "SOUR:FREQ:STAR " \o Format(call.start),
                       "SOUR:FREQ:STOP " \o Format(call.stop),
                       "SOUR:SWE:SPAC " \o call.spacing,
                       "SOUR:SWE:RATE " \o Format(call.rate),
                       "SOUR:SWE:SOUR " \o call.source>>

\* a logarithmic sweep from 50.0 to 100.0, triggered externally
C16_Witness ==
    /\ call.op = "set_frequency_sweep"
    /\ call.state = "ON"
    /\ written = <<"SOUR:SWE:STAT ON", "SOUR:FREQ:STAR 50.0",
                   "SOUR:FREQ:STOP 100.0", "SOUR:SWE:SPAC LOG",
                   "SOUR:SWE:RATE MIN", "SOUR:SWE:SOUR EXT">>

\* C17: every scalar setter writes exactly one command and queries
\* nothing; every scalar getter issues exactly one query and writes
\* nothing, and returns the value of the response to that query; a getter
\* called straight after a getter issues a query of its own, so that the
\* two calls make two queries.
C17_OneWriteOrOneQuery ==
    /\ call.op \in ScalarSetters
           => /\ written = <<setter_header(call.op) \o " "
                                \o Format(call.value)>>
              /\ queried = <<>>
    /\ call.op \in ScalarGetters
           => /\ queried = <<getter_command(call.op)>>
              /\ written = <<>>
              /\ result = getter_result(call.op, call.response)
    /\ (call.op \in ScalarGetters /\ prev # NoneVal)
           => Len(prev.queried) + Len(queried) = 2

\* get_frequency twice, the instrument answering 1.5 and then 1000: the
\* second call returns 1000.0
C17_Witness ==
    /\ prev # NoneVal
    /\ prev.call.op = "get_frequency"
    /\ prev.queried = <<"SOUR:FREQ?">>
    /\ prev.result = FloatVal(15)
    /\ call.op = "get_frequency"
    /\ queried = <<"SOUR:FREQ?">>
    /\ result = FloatVal(10000)

\* the number each numeral response denotes, in tenths
Denoted ==
    {<<<<"1", ".", "5", "\n">>, 15>>,
     <<<<" ", "1", "0", "0", "0", " ", "\r", "\n">>, 10000>>,
     <<<<"+", "1", ".", "0", "E", "+", "0", "3", "\n">>, 10000>>,
     <<<<"-", "2", ".", "5", "e", "0">>, -25>>,
     <<<<".", "5">>, 5>>,
     <<<<"5", ".", "\n">>, 50>>,
     <<<<"2", "5", "0", "e", "-", "1", "\t">>, 250>>,
     <<<<"1", "\n">>, 10>>,
     <<<<"0", "\n">>, 0>>}

\* C18: a numeric getter issues one query and no write; when the response,
\* trimmed, is a numeral it returns the number the numeral denotes, and
\* when it is not it fails with the parse error.
C18_NumberOrParseError ==
    call.op \in NumericGetters
        => /\ queried = <<getter_command(call.op)>>
           /\ written = <<>>
           /\ \A d \in Denoted :
                  call.response = d[1] => result = FloatVal(d[2])
           /\ call.response \notin {d[1] : d \in Denoted}
                  => result = Raised("ValueError")

\* C19: once close() has been called on the session, no call on it hands
\* a write or a query to the transport handle.
C19_NothingAfterClose ==
    (\E a \in DOMAIN handles : handles[a] = "closed")
        => (written = <<>> /\ queried = <<>>)

\* thread t has handed the transport some command of its call, not the last
MidCall(t) ==
    threads[t].sent >= 1 /\ threads[t].sent < Len(threads[t].cmds)

\* C20: with two threads calling methods of one session, at most one
\* command is in flight on the transport at any time, and no command of
\* one thread is handed to the transport between two commands of a call
\* of the other.
C20_OneInFlightContiguous ==
    /\ Cardinality({t \in DOMAIN threads : threads[t].inflight}) <= 1
    /\ \A t, u \in DOMAIN threads :
           (t # u /\ threads[t].self = threads[u].self /\ MidCall(t))
               => ~threads[u].inflight
====
